---- MODULE Spec2Model ----
(***************************************************************************)
(* Export orchestration pipeline of gllm: ExportService.export drives      *)
(* ParallelBranchProcessor.processBranches over the resolved branch list,  *)
(* which mutates the IncrementalManager state that is saved at the end.    *)
(*                                                                         *)
(* Scheduling is that of the JavaScript event loop.  GitService calls are  *)
(* synchronous (execSync) and either return or throw on the spot.  Every   *)
(* FileExporter call is awaited: the caller is suspended and resumed by a  *)
(* later I/O completion, which succeeds or fails.  Continuations that are  *)
(* released by a settled promise (Promise.all joins) are microtasks: they  *)
(* all run before the next I/O completion is delivered.                    *)
(***************************************************************************)
EXTENDS Integers, Sequences, FiniteSets, TLC

\* ---------------------------------------------------------------- bounds
MaxBranches == 2       \* longest requested branch list
MaxConcurrency == 2    \* largest --concurrency value explored
MaxCap == 2            \* largest --commits-per-branch value explored
MaxRuns == 2           \* number of consecutive invocations of the tool
MaxFaults == 1         \* Provider/Writer/state-file failures per invocation

\* ------------------------------------------------------------ repository
BranchNames == {"b1", "b2"}
Commits == {"c1", "c2", "c3"}
Files == {"f1", "f2"}

\* GitService.getBranches: the branch list of the repository
RepoBranches == <<"b1", "b2">>

\* first-parent history of each branch, newest first (git rev-list)
History(b) == IF b = "b1" THEN <<"c3", "c2", "c1">> ELSE <<"c2", "c1">>

\* GitService.getTreeFiles: the paths of the tree of a commit
TreeFiles(c) == IF c \in {"c3", "c1"} THEN {"f1", "f2"} ELSE {}

\* what sha:path is: text without secrets, text with a secret, a blob that is
\* larger than maxFileSize, or an entry whose blob cannot be read at that
\* revision (git cat-file fails)
BlobKind(c, f) ==
  IF c = "c3" /\ f = "f1" THEN "secret"
  ELSE IF c = "c3" /\ f = "f2" THEN "large"
  ELSE IF c = "c1" /\ f = "f2" THEN "unreadable"
  ELSE "clean"

\* options.maxFileSize: the default of the configuration
MaxFileSize == 200000

\* git cat-file -s sha:path
BlobBytes(c, f) == IF BlobKind(c, f) = "large" THEN MaxFileSize + 1 ELSE 1

\* GitService.getBlobSize: the size, or null (the empty sequence) when git fails
getBlobSize(c, f) == IF BlobKind(c, f) = "unreadable" THEN <<>> ELSE <<BlobBytes(c, f)>>

\* mutant: the size is not looked at
getBlobContent_AnySize(c, f, maxBytes) ==
  IF getBlobSize(c, f) = <<>> THEN <<>> ELSE <<BlobKind(c, f)>>

\* GitService.getBlobContent: null (the empty sequence) when the size is
\* unknown or exceeds maxBytes, else what git show prints
getBlobContent(c, f, maxBytes) ==
  IF getBlobSize(c, f) = <<>> \/ getBlobSize(c, f)[1] > maxBytes
  THEN <<>>
  ELSE <<BlobKind(c, f)>>

None == "none"
Idx == 1..MaxBranches

Min(a, b) == IF a < b THEN a ELSE b

\* Array.prototype.slice(from - 1, to) on a 1-based sequence
Slice(s, from, to) == SubSeq(s, from, Min(to, Len(s)))

Range(s) == {s[k] : k \in 1..Len(s)}

RECURSIVE FilterSeq(_, _)
\* Array.prototype.filter(x => x \notin drop)
FilterSeq(s, drop) ==
  IF s = <<>> THEN <<>>
  ELSE IF Head(s) \in drop THEN FilterSeq(Tail(s), drop)
       ELSE <<Head(s)>> \o FilterSeq(Tail(s), drop)

\* every branch list of length at most MaxBranches
BranchLists == UNION {[1..n -> BranchNames] : n \in 0..MaxBranches}

Artifacts ==
  {<<"readme", "-", "-">>, <<"tags", "-", "-">>, <<"index", "-", "-">>}
  \cup {<<"branch", b, "-">> : b \in BranchNames}
  \cup {<<"commit", c, "-">> : c \in Commits}
  \cup {<<"file", c, f>> : c \in Commits, f \in Files}
  \cup {<<"note", c, f>> : c \in Commits, f \in Files}
  \cup {<<"alert", c, f>> : c \in Commits, f \in Files}

VARIABLES
  run,        \* number of invocations started so far
  pc,         \* position of ExportService.export
  persisted,  \* the .gllm-state.json record on disk
  state,      \* IncrementalManager.state (in memory)
  opts,       \* resolved options of this invocation
  faults,     \* failures the environment may still inject in this invocation
  batch,      \* processBranches: loop variable i (1-based start of the batch)
  nxt,        \* next branch of the batch whose processBranch call is made
  br,         \* per branch index: the processBranch task
  ct,         \* per branch index and commit: the processCommit task
  ft,         \* per branch index, commit and file: the processFile task
  results,    \* processBranches: results
  progress,   \* progress events emitted in this invocation (completed counts)
  writes,     \* number of successful Writer calls per artifact in this invocation
  saves,      \* number of saveState calls in this invocation
  log,        \* what happened in this invocation (observation only)
  scanned     \* processFile on given blob contents: the contents, the alerts written

vars == <<run, pc, persisted, state, opts, faults, batch, nxt, br, ct, ft,
          results, progress, writes, saves, log, scanned>>

\* ------------------------------------------------------ IncrementalManager
\* IncrementalManager.getInitialState at time `now`
getInitialState(now) ==
  [loaded |-> TRUE, lastExport |-> now, processedCommits |-> {}, exportedBranches |-> {}]

\* IncrementalManager.loadState() ?? getInitialState()
loadState(rec, now) ==
  IF rec.exists
  THEN [loaded |-> TRUE, lastExport |-> rec.lastExport,
        processedCommits |-> rec.processedCommits,
        exportedBranches |-> rec.exportedBranches]
  ELSE getInitialState(now)

\* mutant: the record is stamped anew on every save
saveState_Stamped(st) ==
  [exists |-> TRUE, lastExport |-> st.lastExport + 1,
   processedCommits |-> st.processedCommits,
   exportedBranches |-> st.exportedBranches]

\* the record IncrementalManager.saveState writes for st
saveState(st) ==
  [exists |-> TRUE, lastExport |-> st.lastExport,
   processedCommits |-> st.processedCommits,
   exportedBranches |-> st.exportedBranches]

isCommitProcessed(st, sha) == st.loaded /\ sha \in st.processedCommits

isBranchExported(st, b) == st.loaded /\ b \in st.exportedBranches

\* mutant: the mark is lost
markCommitProcessed_Lost(st, sha) == st

markCommitProcessed(st, sha) ==
  IF st.loaded THEN [st EXCEPT !.processedCommits = @ \cup {sha}] ELSE st

\* mutant: the branch mark is lost
markBranchExported_Lost(st, b) == st

markBranchExported(st, b) ==
  IF st.loaded THEN [st EXCEPT !.exportedBranches = @ \cup {b}] ELSE st

\* mutant: no filtering
getUnprocessedCommits_All(st, commits) == commits

getUnprocessedCommits(st, commits) ==
  IF ~st.loaded THEN commits ELSE FilterSeq(commits, st.processedCommits)

\* mutant: the force flag is not consulted
shouldSkipBranch_IgnoresForce(st, b, forceUpdate) == isBranchExported(st, b)

shouldSkipBranch(st, b, forceUpdate) ==
  IF forceUpdate THEN FALSE ELSE isBranchExported(st, b)

\* ----------------------------------------------------------- GitService
\* mutant: --max-count is dropped
getCommitsOfBranch_Uncapped(b, limit) == History(b)

\* GitService.getCommitsOfBranch: git rev-list --max-count=limit --first-parent
getCommitsOfBranch(b, limit) == Slice(History(b), 1, limit)

\* ExportService.export: "all" or the comma-separated names
ResolveBranches(sel) == IF sel.all THEN RepoBranches ELSE sel.names

Selections ==
  {[all |-> TRUE, names |-> <<>>]} \cup {[all |-> FALSE, names |-> l] : l \in BranchLists}

\* ---------------------------------------------------------------- tasks
\* st: position of processBranch; all, unp: allCommits, unprocessedCommits;
\* summary: the branch summary this task has written;
\* sub: start of the current chunk; success, commits, error: the value returned;
\* seen: the state the task found when it was called (observation only)
IdleBranch == [st |-> "idle", all |-> <<>>, unp |-> <<>>, sub |-> 0,
               summary |-> [written |-> FALSE, lines |-> <<>>],
               success |-> FALSE, commits |-> <<>>, error |-> None,
               seen |-> [processedCommits |-> {}, exportedBranches |-> {}]]

\* processBranch returns { branch, commits, success, error }
Returned(t, ok, commits, err) ==
  [t EXCEPT !.st = "done", !.success = ok, !.commits = commits, !.error = err]

NoBranchTasks == [i \in Idx |-> IdleBranch]

NoCommitTasks == [i \in Idx |-> [c \in Commits |-> "none"]]

NoFileTasks == [i \in Idx |-> [c \in Commits |-> [f \in Files |-> "none"]]]

\* no .gllm-state.json on disk, or one that cannot be parsed
NoRecord == [exists |-> FALSE, lastExport |-> 0,
             processedCommits |-> {}, exportedBranches |-> {}]

\* loaded: the state export started from; failures: the calls that failed;
\* prov, wr: the branch tasks that called the Provider, the Writer;
\* atSave: the commit tasks that had completed when saveState was called;
\* scans: the blobs (task, commit, file) that scanForSecrets was called on;
\* before: the record on disk when export started; rerun: the invocation
\* repeats the command line of the one before it; prevClean: that one returned
\* from export without any failed call
EmptyLog == [loaded |-> getInitialState(0), failures |-> {}, prov |-> {}, wr |-> {},
             atSave |-> {}, scans |-> {}, before |-> NoRecord, rerun |-> FALSE, prevClean |-> FALSE]

\* ---- SecretScanner
Words == {"text", "AKIA-A", "AKIA-B", "ghp-A", "ghp-B"}

\* what a word looks like to the regular expressions
KindOf(w) ==
  IF w \in {"AKIA-A", "AKIA-B"} THEN "aws"
  ELSE IF w \in {"ghp-A", "ghp-B"} THEN "ghp"
  ELSE "plain"

\* SecretScanner.patterns: the name and the kinds of words the regex matches
\* (a GitHub token holds 36 alphanumerics, which /[a-zA-Z0-9]{32,}/ matches too)
BuiltinPatterns ==
  << [name |-> "AWS Access Key ID", matches |-> {"aws"}],
     [name |-> "Private RSA", matches |-> {"rsa"}],
     [name |-> "Slack token", matches |-> {"slack"}],
     [name |-> "JWT-looking", matches |-> {"jwt"}],
     [name |-> "Generic password-like", matches |-> {"password"}],
     [name |-> "GitHub token", matches |-> {"ghp"}],
     [name |-> "API key pattern", matches |-> {"ghp", "key32"}],
     [name |-> "Database URL", matches |-> {"dburl"}] >>

\* pattern.test(text)
Test(pattern, text) == \E k \in 1..Len(text) : KindOf(text[k]) \in pattern.matches

RECURSIVE Hits(_, _)
Hits(patterns, text) ==
  IF patterns = <<>> THEN <<>>
  ELSE (IF Test(Head(patterns), text) THEN <<Head(patterns).name>> ELSE <<>>)
       \o Hits(Tail(patterns), text)

\* SecretScanner.scanForSecrets: the names of the patterns of this.patterns
\* that match
scanForSecrets(text) == Hits(scanned.patterns, text)

\* no blob content under examination
NoScan == [blobs |-> <<>>, alerts |-> <<>>, custom |-> <<>>, patterns |-> BuiltinPatterns]

NoOpts == [branches |-> <<>>, forceUpdate |-> FALSE, concurrency |-> 1,
           commitsPerBranch |-> 1, includeFiles |-> FALSE, secretScan |-> TRUE]

Init ==
  /\ run = 0
  /\ pc = "idle"
  /\ persisted = [exists |-> FALSE, lastExport |-> 0,
                  processedCommits |-> {}, exportedBranches |-> {}]
  /\ state = [loaded |-> FALSE, lastExport |-> 0,
              processedCommits |-> {}, exportedBranches |-> {}]
  /\ opts = NoOpts
  /\ faults = 0
  /\ batch = 1
  /\ nxt = 1
  /\ br = NoBranchTasks
  /\ ct = NoCommitTasks
  /\ ft = NoFileTasks
  /\ results = <<>>
  /\ progress = <<>>
  /\ writes = [a \in Artifacts |-> 0]
  /\ saves = 0
  /\ log = EmptyLog
  /\ scanned = NoScan

\* a Writer call that completes: ok or, while the environment may still fail, not
Outcomes == IF faults > 0 THEN {TRUE, FALSE} ELSE {TRUE}

Wrote(a) == [writes EXCEPT ![a] = @ + 1]

Failed(i, what, c) == [log EXCEPT !.failures = @ \cup {<<i, what, c>>}]

\* the process of the previous invocation is gone: node exits once no task is
\* pending (after a fatal error cli.ts calls process.exit at once)
Exited ==
  /\ \A i \in Idx : br[i].st \in {"idle", "done"}
  /\ \A i \in Idx, c \in Commits : ct[i][c] \in {"none", "ok", "failed"}
  /\ \A i \in Idx, c \in Commits, f \in Files : ft[i][c][f] \in {"none", "ok", "err"}

\* ------------------------------------------------- ExportService.export
\* cli.ts main: a new process; export() up to its first await
StartRun ==
  /\ pc = "idle"
  /\ run < MaxRuns
  /\ run' = run + 1
  /\ \E sel \in Selections, force \in BOOLEAN, conc \in 1..MaxConcurrency,
        cap \in 1..MaxCap, inc \in BOOLEAN, scan \in BOOLEAN, ok \in BOOLEAN :
       \* --no-secret-scan only matters with --include-files
       /\ inc \/ scan
       /\ opts' = [branches |-> ResolveBranches(sel), forceUpdate |-> force,
                   concurrency |-> conc, commitsPerBranch |-> cap,
                   includeFiles |-> inc, secretScan |-> scan]
       /\ ok \/ MaxFaults > 0
       \* getRepositoryInfo throws: the error is rethrown to the caller
       /\ pc' = IF ok THEN "readme" ELSE "fatal"
       /\ faults' = IF ok THEN MaxFaults ELSE MaxFaults - 1
       /\ log' = [EmptyLog EXCEPT !.loaded = loadState(persisted, run + 1),
                                  !.before = persisted,
                                  !.failures = IF ok THEN {} ELSE {<<0, "repo", "-">>}]
  /\ state' = loadState(persisted, run + 1)
  /\ batch' = 1
  /\ nxt' = 1
  /\ br' = NoBranchTasks
  /\ ct' = NoCommitTasks
  /\ ft' = NoFileTasks
  /\ results' = <<>>
  /\ progress' = <<>>
  /\ writes' = [a \in Artifacts |-> 0]
  /\ saves' = 0
  /\ UNCHANGED persisted
  /\ UNCHANGED scanned

\* mutant: the state is saved before the error is rethrown
PreambleFail_Saving(what) ==
  /\ pc' = "fatal"
  /\ faults' = faults - 1
  /\ log' = Failed(0, what, "-")
  /\ persisted' = saveState(state)
  /\ UNCHANGED <<run, state, opts, batch, nxt, br, ct, ft, results,
                 progress, writes, saves>>

\* export: catch (error) { throw error } -- the error reaches cli.ts main
PreambleFail(what) ==
  /\ pc' = "fatal"
  /\ faults' = faults - 1
  /\ log' = Failed(0, what, "-")
  /\ UNCHANGED persisted
  /\ UNCHANGED <<run, state, opts, batch, nxt, br, ct, ft, results,
                 progress, writes, saves>>

\* await fileExporter.writeReadme completes
ReadmeDone ==
  /\ pc = "readme"
  /\ \E ok \in Outcomes :
       IF ok
       THEN /\ pc' = "tags"
            /\ writes' = Wrote(<<"readme", "-", "-">>)
            /\ UNCHANGED <<run, persisted, state, opts, faults, batch, nxt, br, ct,
                           ft, results, progress, saves, log>>
       ELSE PreambleFail("readme")
  /\ UNCHANGED scanned

\* await fileExporter.writeTags completes
TagsDone ==
  /\ pc = "tags"
  /\ \E ok \in Outcomes :
       IF ok
       THEN /\ pc' = "index"
            /\ writes' = Wrote(<<"tags", "-", "-">>)
            /\ UNCHANGED <<run, persisted, state, opts, faults, batch, nxt, br, ct,
                           ft, results, progress, saves, log>>
       ELSE PreambleFail("tags")
  /\ UNCHANGED scanned

\* mutant: processBranches is entered without the index being written
IndexDone_Skipped ==
  /\ pc = "index"
  /\ pc' = IF Len(opts.branches) = 0 THEN "save" ELSE "starting"
  /\ progress' = <<0>>
  /\ batch' = 1
  /\ nxt' = 1
  /\ UNCHANGED <<run, persisted, state, opts, faults, br, ct, ft,
                 results, writes, saves, log>>
  /\ UNCHANGED scanned

\* await fileExporter.writeIndex completes; processBranches starts: the first
\* progress event, then the first batch (or the return, for an empty list)
IndexDone ==
  /\ pc = "index"
  /\ \E ok \in Outcomes :
       IF ok
       THEN /\ pc' = IF Len(opts.branches) = 0 THEN "save" ELSE "starting"
            /\ writes' = Wrote(<<"index", "-", "-">>)
            /\ progress' = <<0>>
            /\ batch' = 1
            /\ nxt' = 1
            /\ UNCHANGED <<run, persisted, state, opts, faults, br, ct, ft,
                           results, saves, log>>
       ELSE PreambleFail("index")
  /\ UNCHANGED scanned

\* --------------------------------- ParallelBranchProcessor.processBranches
\* branches.slice(i, i + concurrency): the indexes of the current batch
\* mutant: every remaining branch is started at once
BatchEnd_Unbounded == Len(opts.branches)

BatchEnd == Min(batch + opts.concurrency - 1, Len(opts.branches))

InBatch == batch..BatchEnd

\* chunkArray(unprocessedCommits, Math.min(10, concurrency))
MaxCommitBatch == 10

\* mutant: the chunk size does not follow the concurrency
ChunkSize_Fixed == MaxCommitBatch

ChunkSize == Min(MaxCommitBatch, opts.concurrency)

\* the chunk of branch task t that starts at position start of its unprocessed list
Chunk(t, start) == Range(Slice(t.unp, start, start + ChunkSize - 1))

\* files.filter(f => !excludeArr.some(e => f.startsWith(e))), no exclusions set
Retained(c) == TreeFiles(c)

\* the subsets of a chunk whose Provider calls may throw
BadSets(chunk) == {bad \in SUBSET chunk : Cardinality(bad) <= faults}

\* batch.map(sha => processCommit(sha, branch)): each processCommit runs up to
\* its first await; for sha in bad a GitService call throws and the promise is
\* rejected on the spot, for the others the processFile calls are made
CommitsStarted(i, chunk, bad) ==
  [ct EXCEPT ![i] = [c \in Commits |->
      IF c \in bad THEN "failed" ELSE IF c \in chunk THEN "files" ELSE @[c]]]

\* processFile up to its first await: it returns at once unless includeFiles
FilesStarted(i, chunk, bad) ==
  [ft EXCEPT ![i] = [c \in Commits |-> [f \in Files |->
      IF c \in chunk \ bad /\ f \in Retained(c)
      THEN (IF opts.includeFiles THEN "wfile" ELSE "ok")
      ELSE @[c][f]]]]

Seen == [processedCommits |-> state.processedCommits,
         exportedBranches |-> state.exportedBranches]

WriterUsedBy(i, used) == IF used THEN log.wr \cup {i} ELSE log.wr

\* processBranch(branch, forceUpdate) up to its first await, for the next branch
\* of the batch
StartBranch ==
  /\ pc = "starting"
  /\ LET i == nxt
         b == opts.branches[i]
         allCommits == getCommitsOfBranch(b, opts.commitsPerBranch)
         unprocessedCommits == getUnprocessedCommits(state, allCommits)
     IN
     /\ nxt' = i + 1
     /\ pc' = IF i = BatchEnd THEN "awaiting" ELSE "starting"
     /\ IF shouldSkipBranch(state, b, opts.forceUpdate)
        THEN /\ br' = [br EXCEPT ![i] = Returned([@ EXCEPT !.seen = Seen], TRUE, <<>>, None)]
             /\ UNCHANGED <<state, faults, log>>
        ELSE \E fault \in {<<"ok", "-">>} \cup
                          (IF faults > 0
                           THEN {<<"list", "-">>} \cup
                                (IF unprocessedCommits # <<>>
                                 THEN {<<"info", c>> : c \in Range(allCommits)}
                                 ELSE {})
                           ELSE {}) :
               IF fault[1] # "ok"
               THEN \* a GitService call throws: caught by processBranch
                    /\ br' = [br EXCEPT ![i] =
                                Returned([@ EXCEPT !.seen = Seen,
                                                   !.all = IF fault[1] = "list" THEN <<>> ELSE allCommits,
                                                   !.unp = IF fault[1] = "list" THEN <<>> ELSE unprocessedCommits],
                                         FALSE, <<>>, "provider")]
                    /\ faults' = faults - 1
                    /\ log' = [log EXCEPT !.prov = @ \cup {i},
                                          !.failures = @ \cup {<<i, fault[1], fault[2]>>}]
                    /\ UNCHANGED state
               ELSE IF unprocessedCommits = <<>>
               THEN /\ state' = markBranchExported(state, b)
                    /\ br' = [br EXCEPT ![i] =
                                Returned([@ EXCEPT !.seen = Seen, !.all = allCommits],
                                         TRUE, <<>>, None)]
                    /\ log' = [log EXCEPT !.prov = @ \cup {i}]
                    /\ UNCHANGED faults
               ELSE \* exportBranchSummary: writeBranchSummary is called
                    /\ br' = [br EXCEPT ![i] = [@ EXCEPT !.st = "summary",
                                                         !.seen = Seen,
                                                         !.all = allCommits,
                                                         !.unp = unprocessedCommits]]
                    /\ log' = [log EXCEPT !.prov = @ \cup {i}, !.wr = @ \cup {i}]
                    /\ UNCHANGED <<state, faults>>
  /\ UNCHANGED <<run, persisted, opts, batch, ct, ft, results, progress, writes, saves>>
  /\ UNCHANGED scanned

\* a settled promise has released a continuation of processCommit
CommitContReady(i, c) ==
  /\ ct[i][c] = "files"
  /\ \/ \E f \in Retained(c) : ft[i][c][f] = "err"
     \/ \A f \in Retained(c) : ft[i][c][f] = "ok"

\* a settled promise has released the continuation of processBranch
BranchContReady(i) ==
  /\ br[i].st = "commits"
  /\ \/ \E c \in Chunk(br[i], br[i].sub) : ct[i][c] = "failed"
     \/ \A c \in Chunk(br[i], br[i].sub) : ct[i][c] = "ok"

\* Promise.all(batchPromises) is resolved
BatchReady == pc = "awaiting" /\ \A i \in InBatch : br[i].st = "done"

MicroReady ==
  \/ \E i \in Idx, c \in Commits : CommitContReady(i, c)
  \/ \E i \in Idx : BranchContReady(i)
  \/ BatchReady

\* the event loop delivers an I/O completion only when no microtask is left
IOTurn == pc \in {"awaiting", "done"} /\ ~MicroReady

\* exportBranchSummary(branch, commits): one line per commit of the list, in
\* its order, made of the sha, the subject and the author of getCommitInfo(sha)
exportBranchSummary(commits) == [written |-> TRUE, lines |-> commits]

\* mutant: the summary lists the commits that are about to be exported
SummaryOf_Unprocessed(t) == exportBranchSummary(t.unp)

\* processBranch: await this.exportBranchSummary(branch, allCommits)
SummaryOf(t) == exportBranchSummary(t.all)

\* await fileExporter.writeBranchSummary completes; on success the first chunk
\* of commits is started
SummaryDone(i) ==
  /\ br[i].st = "summary"
  /\ IOTurn
  /\ \E ok \in Outcomes :
       IF ok
       THEN \E bad \in BadSets(Chunk(br[i], 1)) :
              /\ br' = [br EXCEPT ![i].st = "commits", ![i].sub = 1,
                                  ![i].summary = SummaryOf(br[i])]
              /\ ct' = CommitsStarted(i, Chunk(br[i], 1), bad)
              /\ ft' = FilesStarted(i, Chunk(br[i], 1), bad)
              /\ writes' = Wrote(<<"branch", opts.branches[i], "-">>)
              /\ faults' = faults - Cardinality(bad)
              /\ log' = [log EXCEPT
                   !.failures = @ \cup {<<i, "commit", c>> : c \in bad},
                   !.wr = WriterUsedBy(i, opts.includeFiles /\
                            \E c \in Chunk(br[i], 1) \ bad : Retained(c) # {})]
       ELSE /\ br' = [br EXCEPT ![i] = Returned(@, FALSE, <<>>, "writer")]
            /\ faults' = faults - 1
            /\ log' = Failed(i, "wbranch", "-")
            /\ UNCHANGED <<ct, ft, writes>>
  /\ UNCHANGED <<run, pc, persisted, state, opts, batch, nxt, results, progress, saves>>
  /\ UNCHANGED scanned

\* mutant: the rejections of the file promises are dropped
FileRejected_Ignored(i, c) == FALSE

\* await Promise.all(filePromises) throws: one of the file promises rejected
FileRejected(i, c) == \E f \in Retained(c) : ft[i][c][f] = "err"

\* processCommit after await Promise.all(filePromises): a rejected file promise
\* is rethrown, otherwise writeCommit is called
CommitCont(i, c) ==
  /\ pc \in {"awaiting", "done"}
  /\ CommitContReady(i, c)
  /\ IF FileRejected(i, c)
     THEN /\ ct' = [ct EXCEPT ![i][c] = "failed"]
          /\ UNCHANGED log
     ELSE /\ ct' = [ct EXCEPT ![i][c] = "writing"]
          /\ log' = [log EXCEPT !.wr = @ \cup {i}]
  /\ UNCHANGED <<run, pc, persisted, state, opts, faults, batch, nxt, br, ft,
                 results, progress, writes, saves>>
  /\ UNCHANGED scanned

\* the document processFile writes at the snapshot link: the snapshot of the
\* blob, or the note that it was skipped when getBlobContent returned null
FileArtifact(c, f) ==
  IF getBlobContent(c, f, MaxFileSize) # <<>> THEN <<"file", c, f>> ELSE <<"note", c, f>>

\* processFile: if (this.options.secretScan) hits = scanForSecrets(blob), in
\* the branch where blob !== null
Scans(c, f) == opts.secretScan /\ getBlobContent(c, f, MaxFileSize) # <<>>

\* mutant: an alert for every scanned blob
HasHits_Always(c, f) == TRUE

\* what git show prints for a blob of the given kind
BlobText(kind) == IF kind = "secret" THEN <<"AKIA-A", "text">> ELSE <<"text">>

\* hits.length, with hits = scanForSecrets(blob) for the blob of f at c
HasHits(c, f) ==
  LET blob == getBlobContent(c, f, MaxFileSize)
  IN blob # <<>> /\ scanForSecrets(BlobText(blob[1])) # <<>>

\* await fileExporter.writeFile completes in processFile (the snapshot, or the
\* note of a skipped blob); after a snapshot, with secretScan and hits,
\* writeAlert is called next
FileDone(i, c, f) ==
  /\ ft[i][c][f] = "wfile"
  /\ IOTurn
  /\ \E ok \in Outcomes :
       IF ok
       THEN /\ ft' = [ft EXCEPT ![i][c][f] =
                        IF Scans(c, f) /\ HasHits(c, f) THEN "walert" ELSE "ok"]
            /\ writes' = Wrote(FileArtifact(c, f))
            /\ log' = [log EXCEPT !.scans = IF Scans(c, f) THEN @ \cup {<<i, c, f>>} ELSE @]
            /\ UNCHANGED faults
       ELSE /\ ft' = [ft EXCEPT ![i][c][f] = "err"]
            /\ faults' = faults - 1
            /\ log' = Failed(i, "wfile", c)
            /\ UNCHANGED writes
  /\ UNCHANGED <<run, pc, persisted, state, opts, batch, nxt, br, ct, results,
                 progress, saves>>
  /\ UNCHANGED scanned

\* await fileExporter.writeAlert completes in processFile
AlertDone(i, c, f) ==
  /\ ft[i][c][f] = "walert"
  /\ IOTurn
  /\ \E ok \in Outcomes :
       IF ok
       THEN /\ ft' = [ft EXCEPT ![i][c][f] = "ok"]
            /\ writes' = Wrote(<<"alert", c, f>>)
            /\ UNCHANGED <<faults, log>>
       ELSE /\ ft' = [ft EXCEPT ![i][c][f] = "err"]
            /\ faults' = faults - 1
            /\ log' = Failed(i, "walert", c)
            /\ UNCHANGED writes
  /\ UNCHANGED <<run, pc, persisted, state, opts, batch, nxt, br, ct, results,
                 progress, saves>>
  /\ UNCHANGED scanned

\* mutant: the commit is marked whether or not its document was written
AfterWriteCommit_MarksAnyway(st, sha, ok) == markCommitProcessed(st, sha)

\* processCommit: await writeCommit(sha, ...); markCommitProcessed(sha) -- the
\* mark is skipped when the awaited write throws
AfterWriteCommit(st, sha, ok) == IF ok THEN markCommitProcessed(st, sha) ELSE st

\* await fileExporter.writeCommit completes in processCommit; on success the
\* commit is marked processed
CommitWriteDone(i, c) ==
  /\ ct[i][c] = "writing"
  /\ IOTurn
  /\ \E ok \in Outcomes :
       /\ state' = AfterWriteCommit(state, c, ok)
       /\ IF ok
          THEN /\ ct' = [ct EXCEPT ![i][c] = "ok"]
               /\ writes' = Wrote(<<"commit", c, "-">>)
               /\ UNCHANGED <<faults, log>>
          ELSE /\ ct' = [ct EXCEPT ![i][c] = "failed"]
               /\ faults' = faults - 1
               /\ log' = Failed(i, "wcommit", c)
               /\ UNCHANGED writes
  /\ UNCHANGED <<run, pc, persisted, opts, batch, nxt, br, ft, results, progress, saves>>
  /\ UNCHANGED scanned

\* processBranch after await Promise.all(commitPromises): a rejected commit
\* promise is caught and the branch fails; otherwise the next chunk is started
\* or, after the last one, the branch is marked exported
BranchCont(i) ==
  /\ pc \in {"awaiting", "done"}
  /\ BranchContReady(i)
  /\ LET t == br[i]
         next == t.sub + ChunkSize
     IN
     IF \E c \in Chunk(t, t.sub) : ct[i][c] = "failed"
     THEN /\ br' = [br EXCEPT ![i] = Returned(@, FALSE, <<>>, "commit")]
          /\ UNCHANGED <<state, ct, ft, faults, log>>
     ELSE IF next <= Len(t.unp)
     THEN \E bad \in BadSets(Chunk(t, next)) :
            /\ br' = [br EXCEPT ![i].sub = next]
            /\ ct' = CommitsStarted(i, Chunk(t, next), bad)
            /\ ft' = FilesStarted(i, Chunk(t, next), bad)
            /\ faults' = faults - Cardinality(bad)
            /\ log' = [log EXCEPT
                 !.failures = @ \cup {<<i, "commit", c>> : c \in bad},
                 !.wr = WriterUsedBy(i, opts.includeFiles /\
                          \E c \in Chunk(t, next) \ bad : Retained(c) # {})]
            /\ UNCHANGED state
     ELSE /\ state' = markBranchExported(state, opts.branches[i])
          /\ br' = [br EXCEPT ![i] = Returned(@, TRUE, t.unp, None)]
          /\ UNCHANGED <<ct, ft, faults, log>>
  /\ UNCHANGED <<run, pc, persisted, opts, batch, nxt, results, progress, writes, saves>>
  /\ UNCHANGED scanned

\* mutant: one rejected branch of a batch fails the others
ResultOf_BatchFails(i) ==
  [branch |-> opts.branches[i], commits |-> br[i].commits,
   success |-> \A k \in InBatch : br[k].success, error |-> br[i].error]

\* the BranchExportResult of branch task i
ResultOf(i) == [branch |-> opts.branches[i], commits |-> br[i].commits,
                success |-> br[i].success, error |-> br[i].error]

\* mutant: the results of a batch come back in reverse order
BatchResults_Reversed == [k \in 1..(BatchEnd - batch + 1) |-> ResultOf(BatchEnd - k + 1)]

\* await Promise.all(batchPromises): the results in the order of the batch
BatchResults == [k \in 1..(BatchEnd - batch + 1) |-> ResultOf(batch + k - 1)]

\* mutant: only the branches that succeeded count as completed
Completed_Succeeded ==
  progress[Len(progress)] + Cardinality({i \in InBatch : br[i].success})

\* progress.completedBranches += batch.length
Completed == progress[Len(progress)] + (BatchEnd - batch + 1)

\* mutant: the state is saved after every batch
BatchJoin_Saving ==
  /\ BatchReady
  /\ results' = results \o BatchResults
  /\ progress' = Append(progress, Completed)
  /\ IF batch + opts.concurrency <= Len(opts.branches)
     THEN /\ batch' = batch + opts.concurrency
          /\ nxt' = batch + opts.concurrency
          /\ pc' = "starting"
     ELSE /\ pc' = "save"
          /\ UNCHANGED <<batch, nxt>>
  /\ persisted' = saveState(state)
  /\ saves' = saves + 1
  /\ UNCHANGED <<run, state, opts, faults, br, ct, ft, writes, log>>
  /\ UNCHANGED scanned

\* processBranches after await Promise.all(batchPromises): the results of the
\* batch are pushed in batch order, progress is emitted, the next batch starts
BatchJoin ==
  /\ BatchReady
  /\ results' = results \o BatchResults
  /\ progress' = Append(progress, Completed)
  /\ IF batch + opts.concurrency <= Len(opts.branches)
     THEN /\ batch' = batch + opts.concurrency
          /\ nxt' = batch + opts.concurrency
          /\ pc' = "starting"
     ELSE /\ pc' = "save"
          /\ UNCHANGED <<batch, nxt>>
  /\ UNCHANGED <<run, persisted, state, opts, faults, br, ct, ft, writes, saves, log>>
  /\ UNCHANGED scanned

\* mutant: the record of the run reaches the disk although the write failed
Written_Anyway(rec, st, ok, torn) == saveState(st)

\* IncrementalManager.saveState: writeFileSync in a try block whose catch only
\* warns.  writeFileSync truncates the file when it opens it: a failure before
\* that leaves the record as it was, a failure after it (torn) leaves a file
\* that JSON.parse rejects, which loadState treats like a missing file
Written(rec, st, ok, torn) ==
  IF ok THEN saveState(st) ELSE IF torn THEN NoRecord ELSE rec

\* export after await processBranches: saveState(state), whose write failure
\* is caught and logged, then the results are returned
Save ==
  /\ pc = "save"
  /\ \E ok \in Outcomes, torn \in BOOLEAN :
       /\ ok => ~torn
       /\ persisted' = Written(persisted, state, ok, torn)
       /\ faults' = IF ok THEN faults ELSE faults - 1
       /\ log' = [log EXCEPT
            !.failures = IF ok THEN @ ELSE @ \cup {<<0, "save", "-">>},
            !.atSave = {<<i, c>> \in Idx \X Commits : ct[i][c] = "ok"}]
  /\ saves' = saves + 1
  /\ pc' = "done"
  /\ UNCHANGED <<run, state, opts, batch, nxt, br, ct, ft, results, progress, writes>>
  /\ UNCHANGED scanned

\* cli.ts main: export has returned (or process.exit(1) after a fatal error) and
\* nothing is pending: the process ends, only the state record outlives it
Exit ==
  /\ pc \in {"done", "fatal"}
  /\ Exited
  /\ pc' = "idle"
  /\ state' = [loaded |-> FALSE, lastExport |-> 0,
               processedCommits |-> {}, exportedBranches |-> {}]
  /\ opts' = NoOpts
  /\ faults' = 0
  /\ batch' = 1
  /\ nxt' = 1
  /\ br' = NoBranchTasks
  /\ ct' = NoCommitTasks
  /\ ft' = NoFileTasks
  /\ results' = <<>>
  /\ progress' = <<>>
  /\ writes' = [a \in Artifacts |-> 0]
  /\ saves' = 0
  /\ log' = EmptyLog
  /\ UNCHANGED <<run, persisted>>
  /\ UNCHANGED scanned

\* the process is killed (or the machine goes down) at any point of a run:
\* every task is gone with it, only the state record outlives it
Crash ==
  /\ pc \notin {"idle"}
  /\ pc' = "idle"
  /\ state' = [loaded |-> FALSE, lastExport |-> 0,
               processedCommits |-> {}, exportedBranches |-> {}]
  /\ opts' = NoOpts
  /\ faults' = 0
  /\ batch' = 1
  /\ nxt' = 1
  /\ br' = NoBranchTasks
  /\ ct' = NoCommitTasks
  /\ ft' = NoFileTasks
  /\ results' = <<>>
  /\ progress' = <<>>
  /\ writes' = [a \in Artifacts |-> 0]
  /\ saves' = 0
  /\ log' = EmptyLog
  /\ UNCHANGED <<run, persisted>>
  /\ UNCHANGED scanned

\* cli.ts main run again with the command line of the invocation that has just
\* ended: the same options, a new process, the state record as it was left
Rerun ==
  /\ pc \in {"done", "fatal"}
  /\ Exited
  /\ run < MaxRuns
  /\ run' = run + 1
  /\ \E ok \in BOOLEAN :
       /\ ok \/ MaxFaults > 0
       /\ pc' = IF ok THEN "readme" ELSE "fatal"
       /\ faults' = IF ok THEN MaxFaults ELSE MaxFaults - 1
       /\ log' = [EmptyLog EXCEPT !.loaded = loadState(persisted, run + 1),
                                  !.before = persisted,
                                  !.failures = IF ok THEN {} ELSE {<<0, "repo", "-">>},
                                  !.rerun = TRUE,
                                  !.prevClean = (pc = "done" /\ log.failures = {})]
  /\ state' = loadState(persisted, run + 1)
  /\ batch' = 1
  /\ nxt' = 1
  /\ br' = NoBranchTasks
  /\ ct' = NoCommitTasks
  /\ ft' = NoFileTasks
  /\ results' = <<>>
  /\ progress' = <<>>
  /\ writes' = [a \in Artifacts |-> 0]
  /\ saves' = 0
  /\ UNCHANGED <<persisted, opts>>
  /\ UNCHANGED scanned

Next ==
  \/ StartRun
  \/ ReadmeDone
  \/ TagsDone
  \/ IndexDone
  \/ StartBranch
  \/ \E i \in Idx : SummaryDone(i)
  \/ \E i \in Idx, c \in Commits : CommitCont(i, c)
  \/ \E i \in Idx, c \in Commits, f \in Files : FileDone(i, c, f)
  \/ \E i \in Idx, c \in Commits, f \in Files : AlertDone(i, c, f)
  \/ \E i \in Idx, c \in Commits : CommitWriteDone(i, c)
  \/ \E i \in Idx : BranchCont(i)
  \/ BatchJoin
  \/ Save
  \/ Exit
  \/ Crash
  \/ Rerun

Spec == Init /\ [][Next]_vars

\* ============================================ IncrementalManager on its own
\* The state file as it may be found on disk, and the manager's state with its
\* Sets in insertion order.  In Spec the file is absent or one that saveState
\* wrote; StateSpec starts from any file content.
MaxItems == 2          \* longest array found in a state file

Rest == <<opts, faults, batch, nxt, br, ct, ft, results, progress, writes, saves, log,
          scanned>>

\* Date.getTime() of an Invalid Date (NaN)
InvalidDate == -1

\* this.state = null
NoState == [loaded |-> FALSE, lastExport |-> 0,
            processedCommits |-> <<>>, exportedBranches |-> <<>>]

\* JSON values of the lastExport field: no such field, a string that is no
\* date, an ISO timestamp
RawDates == {[t |-> "absent", time |-> 0], [t |-> "junk", time |-> 0],
             [t |-> "iso", time |-> 0]}

\* JSON values of an array field: no such field, a number, a string, an array
\* of at most MaxItems ids (duplicates allowed)
RawArrays(ids) ==
  {[t |-> "absent", items |-> <<>>], [t |-> "number", items |-> <<>>],
   [t |-> "string", items |-> <<"x">>]}
  \cup {[t |-> "array", items |-> a] : a \in UNION {[1..n -> ids] : n \in 0..MaxItems}}

RawFile(kind, d, cs, bs) ==
  [kind |-> kind, lastExport |-> d, processedCommits |-> cs, exportedBranches |-> bs]

\* no file; a file that JSON.parse rejects; a JSON object
RawFiles ==
  {RawFile(k, [t |-> "absent", time |-> 0], [t |-> "absent", items |-> <<>>],
           [t |-> "absent", items |-> <<>>]) : k \in {"missing", "garbage"}}
  \cup {RawFile("json", d, cs, bs) :
          d \in RawDates, cs \in RawArrays(Commits), bs \in RawArrays(BranchNames)}

\* new Date(v): undefined or a string that is no date give an Invalid Date
NewDate(v) == IF v.t = "iso" THEN v.time ELSE InvalidDate

\* mutant: an array, not a Set
SetAdd_Push(s, x) == Append(s, x)

\* Set.prototype.add: insertion order, no duplicate
SetAdd(s, x) == IF x \in Range(s) THEN s ELSE Append(s, x)

RECURSIVE AddAll(_, _)
AddAll(s, items) ==
  IF items = <<>> THEN s ELSE AddAll(SetAdd(s, Head(items)), Tail(items))

\* new Set(v) throws a TypeError when v is neither nullish nor iterable
SetThrows(v) == v.t = "number"

\* new Set(v): empty for undefined, the elements of an array, the characters
\* of a string
NewSet(v) == AddAll(<<>>, v.items)

\* IncrementalManager.loadState: the parsed state, or null when the file is
\* absent or anything in the try block throws
IM_loadState(raw) ==
  IF raw.kind = "json" /\ ~SetThrows(raw.processedCommits)
                      /\ ~SetThrows(raw.exportedBranches)
  THEN [loaded |-> TRUE, lastExport |-> NewDate(raw.lastExport),
        processedCommits |-> NewSet(raw.processedCommits),
        exportedBranches |-> NewSet(raw.exportedBranches)]
  ELSE NoState

IM_getInitialState(now) ==
  [loaded |-> TRUE, lastExport |-> now, processedCommits |-> <<>>, exportedBranches |-> <<>>]

\* ExportService.export: loadState() ?? getInitialState()
IM_loadOrInitial(raw, now) ==
  IF IM_loadState(raw).loaded THEN IM_loadState(raw) ELSE IM_getInitialState(now)

IM_markCommitProcessed(st, sha) ==
  IF st.loaded THEN [st EXCEPT !.processedCommits = SetAdd(@, sha)] ELSE st

IM_markBranchExported(st, b) ==
  IF st.loaded THEN [st EXCEPT !.exportedBranches = SetAdd(@, b)] ELSE st

\* a file that JSON.parse rejects
Garbage ==
  RawFile("garbage", [t |-> "absent", time |-> 0], [t |-> "absent", items |-> <<>>],
          [t |-> "absent", items |-> <<>>])

\* IncrementalManager.saveState: toISOString throws a RangeError on an Invalid
\* Date, which the catch swallows like a failed write: the file stays as it
\* is, or is left truncated when writeFileSync fails after opening it
IM_saveState(raw, st, outcome) ==
  IF st.lastExport = InvalidDate \/ outcome = "kept" THEN raw
  ELSE IF outcome = "torn" THEN Garbage
  ELSE RawFile("json", [t |-> "iso", time |-> st.lastExport],
               [t |-> "array", items |-> st.processedCommits],
               [t |-> "array", items |-> st.exportedBranches])

StateInit ==
  /\ persisted \in RawFiles
  /\ state = NoState
  /\ pc = "idle"
  /\ run = 1
  /\ opts = NoOpts
  /\ faults = 0
  /\ batch = 1
  /\ nxt = 1
  /\ br = NoBranchTasks
  /\ ct = NoCommitTasks
  /\ ft = NoFileTasks
  /\ results = <<>>
  /\ progress = <<>>
  /\ writes = [a \in Artifacts |-> 0]
  /\ saves = 0
  /\ log = EmptyLog
  /\ scanned = NoScan

\* export: this.incrementalManager.state = loadState() ?? getInitialState()
LoadFile ==
  /\ pc = "idle"
  /\ state' = IM_loadOrInitial(persisted, run)
  /\ pc' = "loaded"
  /\ UNCHANGED <<run, persisted>>
  /\ UNCHANGED Rest

MarkCommit(c) ==
  /\ pc \in {"loaded", "marked"}
  /\ state' = IM_markCommitProcessed(state, c)
  /\ pc' = "marked"
  /\ UNCHANGED <<run, persisted>>
  /\ UNCHANGED Rest

MarkBranch(b) ==
  /\ pc \in {"loaded", "marked"}
  /\ state' = IM_markBranchExported(state, b)
  /\ pc' = "marked"
  /\ UNCHANGED <<run, persisted>>
  /\ UNCHANGED Rest

SaveFile ==
  /\ pc \in {"loaded", "marked"}
  /\ \E outcome \in {"ok", "kept", "torn"} :
       persisted' = IM_saveState(persisted, state, outcome)
  /\ pc' = "saved"
  /\ UNCHANGED <<run, state>>
  /\ UNCHANGED Rest

StateNext ==
  \/ LoadFile
  \/ \E c \in Commits : MarkCommit(c)
  \/ \E b \in BranchNames : MarkBranch(b)
  \/ SaveFile

StateSpec == StateInit /\ [][StateNext]_vars

\* ===================================================== secret scanning
\* A blob is a sequence of words.  Two words of the same kind are different
\* texts that the same patterns match.
MaxWords == 2          \* longest blob content examined

\* mutant: the alert quotes the blob
alertContent_Quoting(filePath, sha, blob) == <<filePath, sha, scanForSecrets(blob), blob>>

\* processFile: `Potential secrets detected in ${filePath} @ ${sha}:\n` +
\* hits.join("\n"), with hits = scanForSecrets(blob)
alertContent(filePath, sha, blob) == <<filePath, sha, scanForSecrets(blob)>>

Blobs == UNION {[1..n -> Words] : n \in 0..MaxWords}

\* two versions of the blob of f1 at c3, nothing processed yet
ScanInit ==
  /\ scanned \in {[blobs |-> <<a, b>>, alerts |-> <<None, None>>, custom |-> <<>>,
                   patterns |-> BuiltinPatterns] : a \in Blobs, b \in Blobs}
  /\ \E scan \in BOOLEAN :
       opts = [NoOpts EXCEPT !.includeFiles = TRUE, !.secretScan = scan]
  /\ run = 0
  /\ pc = "idle"
  /\ persisted = NoRecord
  /\ state = getInitialState(0)
  /\ faults = 0
  /\ batch = 1
  /\ nxt = 1
  /\ br = NoBranchTasks
  /\ ct = NoCommitTasks
  /\ ft = NoFileTasks
  /\ results = <<>>
  /\ progress = <<>>
  /\ writes = [a \in Artifacts |-> 0]
  /\ saves = 0
  /\ log = EmptyLog

\* processFile("c3", "f1") on version k of the blob, after writeFile: with
\* secretScan and at least one hit the alert is written
ScanFile(k) ==
  /\ scanned.alerts[k] = None
  /\ opts.secretScan
  /\ scanForSecrets(scanned.blobs[k]) # <<>>
  /\ scanned' = [scanned EXCEPT !.alerts[k] = alertContent("f1", "c3", scanned.blobs[k])]
  /\ UNCHANGED <<run, pc, persisted, state, opts, faults, batch, nxt, br, ct, ft,
                 results, progress, writes, saves, log>>

ScanNext == \E k \in 1..2 : ScanFile(k)

ScanSpec == ScanInit /\ [][ScanNext]_vars

\* ======================================== custom patterns from the config
\* cli.ts main up to the export, for a configuration file that lists custom
\* secret patterns: ConfigManager.loadConfig validates the configuration,
\* the ExportService constructor hands security.customPatterns to
\* SecretScanner.addCustomPatterns, and processFile scans a blob.
MaxCustom == 2         \* longest security.customPatterns list

\* the entries a configuration may list; "[(" is not a regular expression
CustomEntries ==
  { [name |-> "Internal marker", pattern |-> "text"],
    [name |-> "Custom GitHub", pattern |-> "ghp_"],
    [name |-> "Broken", pattern |-> "[("] }

CustomLists == UNION {[1..n -> CustomEntries] : n \in 0..MaxCustom}

\* new RegExp(source): <<>> when it throws a SyntaxError, else the kinds of
\* words the expression matches
NewRegExp(source) ==
  IF source = "[(" THEN <<>>
  ELSE IF source = "text" THEN <<{"plain"}>>
  ELSE <<{"ghp"}>>

\* ConfigValidator.validate: the indexes of the custom patterns reported as
\* "is not a valid regular expression"
validate(custom) == {k \in 1..Len(custom) : NewRegExp(custom[k].pattern) = <<>>}

\* ConfigValidator.validateConfig: FALSE when it throws "Invalid configuration"
validateConfig(custom) == validate(custom) = {}

RECURSIVE addCustomPatterns(_, _)
\* SecretScanner.addCustomPatterns: each entry is compiled and pushed, an
\* entry whose compilation throws is skipped with a warning
addCustomPatterns(patterns, custom) ==
  IF custom = <<>> THEN patterns
  ELSE LET e == Head(custom)
           regex == NewRegExp(e.pattern)
       IN addCustomPatterns(
            IF regex = <<>> THEN patterns
            ELSE Append(patterns, [name |-> e.name, matches |-> regex[1]]),
            Tail(custom))

\* a configuration file with some custom patterns, one blob to scan
ConfigInit ==
  /\ scanned \in {[blobs |-> <<a>>, alerts |-> <<None>>, custom |-> l,
                   patterns |-> BuiltinPatterns] : a \in Blobs, l \in CustomLists}
  /\ opts = [NoOpts EXCEPT !.includeFiles = TRUE]
  /\ run = 0
  /\ pc = "idle"
  /\ persisted = NoRecord
  /\ state = getInitialState(0)
  /\ faults = 0
  /\ batch = 1
  /\ nxt = 1
  /\ br = NoBranchTasks
  /\ ct = NoCommitTasks
  /\ ft = NoFileTasks
  /\ results = <<>>
  /\ progress = <<>>
  /\ writes = [a \in Artifacts |-> 0]
  /\ saves = 0
  /\ log = EmptyLog

\* cli.ts main: loadConfig and mergeWithCliOptions call validateConfig, whose
\* error main catches ("Fatal:", process.exit(1)); otherwise new
\* ExportService(...) adds the custom patterns and export is called
Main ==
  /\ pc = "idle"
  /\ IF validateConfig(scanned.custom)
     THEN /\ pc' = "export"
          /\ scanned' = [scanned EXCEPT
                           !.patterns = addCustomPatterns(@, scanned.custom)]
     ELSE /\ pc' = "fatal"
          /\ UNCHANGED scanned
  /\ UNCHANGED <<run, persisted, state, opts, faults, batch, nxt, br, ct, ft,
                 results, progress, writes, saves, log>>

\* processFile on the blob during the export
ConfigScan == pc = "export" /\ ScanFile(1)

ConfigNext == Main \/ ConfigScan

ConfigSpec == ConfigInit /\ [][ConfigNext]_vars

\* ============================== the batch loop for any --concurrency value
\* processBranches with the concurrency that cli.ts hands to ExportService:
\* the value of --concurrency as parseInt returns it, which no validation
\* sees (mergeWithCliOptions does not copy it into the validated config), or
\* else performance.concurrency, which ConfigValidator requires to be
\* positive, or else 4.  processBranch is a call that returns an outcome.
DefaultConcurrency == 4

\* opts.concurrency ?? config.performance?.concurrency ?? 4, an undefined
\* value being the empty sequence and the number n being <<n>>
ResolveConcurrency(given, configured) ==
  IF given # <<>> THEN given[1]
  ELSE IF configured # <<>> THEN configured[1]
  ELSE DefaultConcurrency

\* the values --concurrency can carry here, and those a valid config can
GivenConcurrency == {<<>>} \cup {<<n>> : n \in 0..MaxConcurrency}

ConfiguredConcurrency == {<<>>} \cup {<<n>> : n \in 1..MaxConcurrency}

LoopRest == <<run, persisted, state, faults, ct, ft, writes, saves, log, scanned>>

\* processBranches is called: results = [], the first progress event
LoopInit ==
  /\ \E l \in BranchLists, given \in GivenConcurrency, configured \in ConfiguredConcurrency :
       opts = [NoOpts EXCEPT !.branches = l,
                             !.concurrency = ResolveConcurrency(given, configured)]
  /\ pc = "loop"
  /\ batch = 1
  /\ nxt = 1
  /\ br = NoBranchTasks
  /\ results = <<>>
  /\ progress = <<0>>
  /\ run = 1
  /\ persisted = NoRecord
  /\ state = getInitialState(1)
  /\ faults = 0
  /\ ct = NoCommitTasks
  /\ ft = NoFileTasks
  /\ writes = [a \in Artifacts |-> 0]
  /\ saves = 0
  /\ log = EmptyLog
  /\ scanned = NoScan

\* for (let i = 0; i < branches.length; ...): the test, then the slice of the
\* batch or the return of results
LoopTest ==
  /\ pc = "loop"
  /\ pc' = IF batch <= Len(opts.branches) THEN "batch" ELSE "returned"
  /\ nxt' = batch
  /\ UNCHANGED <<opts, batch, br, results, progress>>
  /\ UNCHANGED LoopRest

\* batch.map(branch => processBranch(...).catch(...)): the call for the next
\* branch of the batch settles with an outcome, a success or a failure
LoopBranch ==
  /\ pc = "batch"
  /\ nxt <= BatchEnd
  /\ \E ok \in BOOLEAN, n \in 0..1 :
       br' = [br EXCEPT ![nxt] =
               Returned(@, ok,
                        IF ok THEN getCommitsOfBranch(opts.branches[nxt], n) ELSE <<>>,
                        IF ok THEN None ELSE "provider")]
  /\ nxt' = nxt + 1
  /\ UNCHANGED <<opts, pc, batch, results, progress>>
  /\ UNCHANGED LoopRest

\* after await Promise.all(batchPromises): results.push(...batchResults), the
\* progress event (the latest one is kept here), i += this.concurrency
LoopJoin ==
  /\ pc = "batch"
  /\ nxt > BatchEnd
  /\ results' = results \o BatchResults
  /\ progress' = <<Completed>>
  /\ batch' = batch + opts.concurrency
  /\ pc' = "loop"
  /\ UNCHANGED <<opts, nxt, br>>
  /\ UNCHANGED LoopRest

LoopNext == LoopTest \/ LoopBranch \/ LoopJoin

\* the event loop runs every continuation that is ready
LoopSpec == LoopInit /\ [][LoopNext]_vars /\ WF_vars(LoopNext)

\* ================================================================ claims
CommitDoc(c) == <<"commit", c, "-">>

Requested == 1..Len(opts.branches)

FailuresOf(i) == {x \in log.failures : x[1] = i}

SaveOk == <<0, "save", "-">> \notin log.failures

\* position of commit c in sequence s
Pos(s, c) == CHOOSE k \in 1..Len(s) : s[k] = c

\* number of the chunk that holds position k of an unprocessed list
ChunkNo(k) == (k - 1) \div ChunkSize

\* number of the batch that holds branch index i
BatchNo(i) == (i - 1) \div opts.concurrency

\* the Provider failed for exactly one unprocessed commit c of branch task i
\* and nothing else failed in that task
OneCommitFailed(i, c) ==
  /\ i \in Requested
  /\ c \in Range(br[i].unp)
  /\ FailuresOf(i) \in {{<<i, "commit", c>>}, {<<i, "info", c>>}}

\* C1 as stated: when the Provider fails for exactly one unprocessed commit of a
\* branch, the outcome is a failure and every other unprocessed commit of the
\* branch has its artifact written and is in the persisted processedCommits.
C1_AllOthersPersisted ==
  (pc = "done" /\ Exited /\ SaveOk) =>
    \A i \in Idx, c \in Commits :
      OneCommitFailed(i, c) =>
        /\ ~br[i].success
        /\ \A d \in Range(br[i].unp) \ {c} :
             writes[CommitDoc(d)] >= 1 /\ d \in persisted.processedCommits

\* C1 (amended): when the Provider fails for exactly one unprocessed commit of a
\* branch, the outcome is a failure with an empty commit list; another
\* unprocessed commit of the branch whose commit task had completed when the
\* state was saved has its artifact written and, the save succeeding, is in the
\* persisted processedCommits; a commit of a later chunk than the failing one
\* is never started, and none is when the failure hits the summary.
C1_CompletedOthersPersisted ==
  pc = "done" =>
    \A i \in Idx, c \in Commits :
      OneCommitFailed(i, c) =>
        /\ ~br[i].success
        /\ br[i].commits = <<>>
        /\ \A d \in Range(br[i].unp) \ {c} :
             /\ <<i, d>> \in log.atSave =>
                  /\ writes[CommitDoc(d)] >= 1
                  /\ SaveOk => d \in persisted.processedCommits
             /\ ChunkNo(Pos(br[i].unp, d)) > ChunkNo(Pos(br[i].unp, c)) =>
                  ct[i][d] = "none"
             /\ <<i, "info", c>> \in log.failures => ct[i][d] = "none"

C1_Witness ==
  /\ pc = "done"
  /\ \E i \in Idx, c \in Commits :
       /\ OneCommitFailed(i, c)
       /\ \E d \in Range(br[i].unp) \ {c} :
            <<i, d>> \in log.atSave /\ d \in persisted.processedCommits

\* C2 as stated: in a run without force no commit id has more than one commit
\* task, and it is listed in at most one outcome.
C2_AtMostOneTask ==
  ~opts.forceUpdate =>
    \A c \in Commits :
      /\ Cardinality({i \in Idx : ct[i][c] # "none"}) <= 1
      /\ Cardinality({i \in Idx : c \in Range(br[i].commits)}) <= 1

\* C2 (amended): in a run without force a commit task runs only for a commit id
\* that was not in processedCommits when its branch was started, and a commit
\* listed by a successful branch gets no commit task and no listing in a branch
\* of a later batch (branches of one batch may both process a shared commit).
C2_NoTaskForKnownCommit ==
  ~opts.forceUpdate =>
    \A i \in Idx, c \in Commits :
      /\ ct[i][c] # "none" => c \notin br[i].seen.processedCommits
      /\ (br[i].success /\ c \in Range(br[i].commits)) =>
           \A j \in Idx :
             BatchNo(j) > BatchNo(i) =>
               ct[j][c] = "none" /\ c \notin Range(br[j].commits)

C2_Witness ==
  /\ ~opts.forceUpdate
  /\ \E i, j \in Idx, c \in Commits :
       /\ BatchNo(j) > BatchNo(i)
       /\ br[i].success /\ c \in Range(br[i].commits)
       /\ br[j].st = "done" /\ br[j].success /\ br[j].commits # <<>>
       /\ c \in Range(br[j].all)

\* C3: with forceUpdate every candidate commit of every requested branch is
\* exported again (artifact rewritten, listed in the outcome), also when the
\* loaded state already holds the commit.
C3_ForceReexports ==
  (pc = "done" /\ opts.forceUpdate /\ log.failures = {}) =>
    \A i \in Requested :
      \A c \in Range(getCommitsOfBranch(opts.branches[i], opts.commitsPerBranch)) :
        c \in log.loaded.processedCommits =>
          writes[CommitDoc(c)] >= 1 /\ c \in Range(results[i].commits)

\* the branch task returned without any Provider call
Skipped(i) == br[i].st = "done" /\ i \notin log.prov

\* C4: a branch is skipped iff forceUpdate is false and the branch is in
\* exportedBranches when its processing starts; a skipped branch returns
\* success with no commits and makes no Provider and no Writer call.
C4_SkipRule ==
  \A i \in Idx :
    br[i].st # "idle" =>
      /\ Skipped(i) <=>
           (~opts.forceUpdate /\ opts.branches[i] \in br[i].seen.exportedBranches)
      /\ Skipped(i) =>
           /\ br[i].success
           /\ br[i].commits = <<>>
           /\ i \notin log.wr
           /\ \A c \in Commits : ct[i][c] = "none"

C4_Witness ==
  \E i \in Idx :
    /\ Skipped(i)
    /\ \E c \in Range(getCommitsOfBranch(opts.branches[i], opts.commitsPerBranch)) :
         c \notin state.processedCommits

\* C5: in a run without force no commit of the loaded processedCommits is
\* processed again: no artifact is written for it, no outcome lists it.
C5_LoadedCommitsNotReprocessed ==
  ~opts.forceUpdate =>
    \A c \in log.loaded.processedCommits :
      /\ writes[CommitDoc(c)] = 0
      /\ \A i \in Idx : ct[i][c] = "none" /\ c \notin Range(br[i].commits)

C5_Witness ==
  /\ ~opts.forceUpdate
  /\ \E i \in Idx, c \in Commits :
       /\ c \in Range(br[i].all)
       /\ c \in log.loaded.processedCommits
       /\ opts.branches[i] \notin log.loaded.exportedBranches
       /\ br[i].st = "done" /\ br[i].success /\ br[i].commits # <<>>

\* candidates of the branch at index j of the resolved list
Cand(j) == getCommitsOfBranch(opts.branches[j], opts.commitsPerBranch)

RECURSIVE RefOutcomes(_, _, _, _, _, _)
\* the commit lists of the run from branch j on when nothing fails: a branch
\* sees the commits marked before its batch (P) and the branches marked exported
\* so far (E); what its batch marks (PP, PE) is seen from the next batch on
RefOutcomes(j, snapP, expNow, pendP, pendE, outs) ==
  IF j > Len(opts.branches) THEN outs
  ELSE LET newBatch == (j - 1) % opts.concurrency = 0
           P == IF newBatch THEN snapP \cup pendP ELSE snapP
           E == IF newBatch THEN expNow \cup pendE ELSE expNow
           PP == IF newBatch THEN {} ELSE pendP
           PE == IF newBatch THEN {} ELSE pendE
           b == opts.branches[j]
           unp == FilterSeq(Cand(j), P)
       IN IF ~opts.forceUpdate /\ b \in E
          THEN RefOutcomes(j + 1, P, E, PP, PE, Append(outs, <<>>))
          ELSE IF unp = <<>>
          THEN RefOutcomes(j + 1, P, E \cup {b}, PP, PE, Append(outs, <<>>))
          ELSE RefOutcomes(j + 1, P, E, PP \cup Range(unp), PE \cup {b}, Append(outs, unp))

\* the commit list of each branch in the run of the same inputs where no call fails
FailureFree ==
  RefOutcomes(1, log.loaded.processedCommits, log.loaded.exportedBranches, {}, {}, <<>>)

\* branch i shares a candidate commit (or its name) with a branch that failed
TouchesFailed(i) ==
  \E k \in Requested :
    /\ FailuresOf(k) # {}
    /\ \/ opts.branches[k] = opts.branches[i]
       \/ Range(Cand(k)) \cap Range(Cand(i)) # {}

\* C6 as stated: export returns one outcome per branch, only a branch in which a
\* call failed has success = false, and every other branch has the outcome it
\* has in the run where nothing fails.
C6_OthersAsWithoutFailure ==
  pc = "done" =>
    /\ Len(results) = Len(opts.branches)
    /\ \A i \in Requested :
         /\ results[i].success <=> FailuresOf(i) = {}
         /\ FailuresOf(i) = {} => results[i].commits = FailureFree[i]

\* C6 (amended): export returns one outcome per branch, only a branch in which a
\* call failed has success = false (with an error text); every other branch
\* succeeds and lists at least the commits it lists in the failure-free run, and
\* exactly those when it shares no candidate commit with a failed branch.
C6_OthersSucceed ==
  pc = "done" =>
    /\ Len(results) = Len(opts.branches)
    /\ \A i \in Requested :
         /\ results[i].success <=> FailuresOf(i) = {}
         /\ results[i].success <=> results[i].error = None
         /\ FailuresOf(i) = {} =>
              /\ Range(FailureFree[i]) \subseteq Range(results[i].commits)
              /\ ~TouchesFailed(i) => results[i].commits = FailureFree[i]

C6_Witness ==
  /\ pc = "done"
  /\ \E i, k \in Requested :
       /\ FailuresOf(k) # {} /\ ~results[k].success
       /\ FailuresOf(i) = {} /\ results[i].success
       /\ results[i].commits # <<>>
       /\ ~TouchesFailed(i)

\* the branch tasks that were started and have not returned
InFlight == {i \in Idx : br[i].st \in {"summary", "commits"}}

\* C7: at every instant at most `concurrency` branch tasks are in flight.
C7_BranchConcurrencyBound == Cardinality(InFlight) <= opts.concurrency

C7_Witness ==
  /\ Len(opts.branches) > opts.concurrency
  /\ Cardinality(InFlight) = opts.concurrency
  /\ \E i \in Requested : br[i].st = "idle"

\* C8: processBranches returns one outcome per entry of the branch list, the
\* i-th being what the task of the i-th branch returned, whatever the order of
\* completion.
C8_ResultsInBranchOrder ==
  /\ Len(results) <= Len(opts.branches)
  /\ \A i \in 1..Len(results) : results[i] = ResultOf(i)
  /\ pc \in {"save", "done"} => Len(results) = Len(opts.branches)

\* the second branch of a batch returned at its call (a Provider failure), the
\* first one only after its commits were written
C8_Witness ==
  /\ pc = "done"
  /\ opts.concurrency >= 2
  /\ Len(results) >= 2
  /\ results[1].success /\ results[1].commits # <<>>
  /\ results[2].error = "provider"

C10_SavedOnceAfterOrchestration ==
  /\ pc \in {"starting", "awaiting", "save"} => saves = 0
  /\ pc = "done" =>
       /\ saves = 1
       /\ Len(results) = Len(opts.branches)
       /\ SaveOk => persisted.exists /\ persisted.lastExport = state.lastExport

C10_Witness ==
  /\ pc = "done"
  /\ saves = 1
  /\ \E i, k \in Requested : results[i].success /\ ~results[k].success

\* the steps of export before processBranches whose failure is fatal
PreambleSteps == {"repo", "readme", "tags", "index"}

PreambleFailed == \E x \in log.failures : x[1] = 0 /\ x[2] \in PreambleSteps

\* C11: when getRepositoryInfo or the writing of the readme, the tags or the
\* index fails, export raises the error to its caller, no branch is processed
\* (no processBranch call, no outcome, no Provider call for a branch) and the
\* record on disk is the one that was there when the run started.
C11_FatalLeavesRecord ==
  /\ PreambleFailed => pc = "fatal"
  /\ pc = "fatal" =>
       /\ PreambleFailed
       /\ persisted = log.before
       /\ saves = 0
       /\ results = <<>>
       /\ \A i \in Idx : br[i] = IdleBranch
       /\ log.prov = {} /\ log.wr = {}
       /\ state = log.loaded

\* the tags artifact fails in a run that found a record with processed commits
C11_Witness ==
  /\ pc = "fatal"
  /\ <<0, "tags", "-">> \in log.failures
  /\ persisted.exists /\ persisted.processedCommits # {}
  /\ opts.branches # <<>>

\* every branch task of the run returned at the shouldSkipBranch test, and
\* every outcome has an empty commit list
AllSkipped ==
  /\ \A i \in Requested : br[i].st # "idle" => Skipped(i)
  /\ \A k \in 1..Len(results) : results[k].success /\ results[k].commits = <<>>
  /\ pc \in {"save", "done"} => \A i \in Requested : Skipped(i)

BeyondCap(i) ==
  Range(History(opts.branches[i])) \
    Range(Slice(History(opts.branches[i]), 1, opts.commitsPerBranch))

\* C13: the candidates of a branch are its commitsPerBranch newest commits; a
\* commit beyond the cap gets no commit task and no file task from that branch
\* and is not listed in its outcome; a commit beyond the cap of every requested
\* branch is not marked processed; the branch is marked exported when its task
\* succeeds all the same, and an unforced rerun after a failure-free run makes
\* no Provider call for it.
C13_CapRespected ==
  /\ \A i \in Requested :
       br[i].st # "idle" =>
         /\ br[i].all \in {<<>>, Slice(History(opts.branches[i]), 1, opts.commitsPerBranch)}
         /\ Len(br[i].all) <= opts.commitsPerBranch
         /\ \A c \in BeyondCap(i) :
              /\ ct[i][c] = "none"
              /\ \A f \in Files : ft[i][c][f] = "none"
              /\ c \notin Range(br[i].commits)
         /\ (br[i].st = "done" /\ br[i].success) =>
              opts.branches[i] \in state.exportedBranches
  /\ \A c \in Commits :
       (pc # "idle" /\ \A i \in Requested : c \in BeyondCap(i)) =>
         /\ c \in state.processedCommits => c \in log.loaded.processedCommits
         /\ writes[CommitDoc(c)] = 0
  /\ (log.rerun /\ log.prevClean /\ ~opts.forceUpdate) => log.prov = {}

\* b1 has three commits: the first run exported the newest ones only and marked
\* b1 exported; the rerun has skipped b1
C13_Witness ==
  /\ log.rerun /\ log.prevClean /\ ~opts.forceUpdate
  /\ pc = "done"
  /\ opts.branches = <<"b1">>
  /\ "b1" \in persisted.exportedBranches
  /\ "c3" \in persisted.processedCommits
  /\ "c1" \notin persisted.processedCommits
  /\ Skipped(1)

\* the file holds a JSON object with an ISO timestamp and two arrays
MatchesSchema(raw) ==
  /\ raw.kind = "json"
  /\ raw.lastExport.t = "iso"
  /\ raw.processedCommits.t = "array"
  /\ raw.exportedBranches.t = "array"

\* C14 as stated: loading never raises, and when the file is missing, is not
\* JSON or does not match the schema, the run starts from the fresh initial
\* state: lastExport = now, both sets empty.
C14_BadRecordGivesFresh ==
  (pc = "loaded" /\ ~MatchesSchema(persisted)) => state = IM_getInitialState(run)

C16_AlertHidesMatch ==
  /\ (scanned.alerts[1] # None /\ scanned.alerts[2] # None
       /\ scanForSecrets(scanned.blobs[1]) = scanForSecrets(scanned.blobs[2])) =>
         scanned.alerts[1] = scanned.alerts[2]
  /\ \A k \in 1..2 :
       scanned.alerts[k] # None =>
         /\ Len(scanned.alerts[k]) = 3
         /\ scanned.alerts[k][1] = "f1" /\ scanned.alerts[k][2] = "c3"
         /\ scanned.alerts[k][3] = scanForSecrets(scanned.blobs[k])
         /\ Range(scanned.alerts[k][3]) \subseteq {BuiltinPatterns[j].name : j \in 1..Len(BuiltinPatterns)}
         /\ Range(scanned.alerts[k][3]) \cap Words = {}

\* two different AWS keys, each with a different GitHub token: both alerts are
\* written and are the same
C16_Witness ==
  /\ scanned.blobs = << <<"AKIA-A", "ghp-A">>, <<"ghp-B", "AKIA-B">> >>
  /\ scanned.alerts[1] # None
  /\ scanned.alerts[1] = scanned.alerts[2]
  /\ Len(scanned.alerts[1][3]) = 3

NoDup(s) == \A i, j \in 1..Len(s) : s[i] = s[j] => i = j

\* C17: processedCommits and exportedBranches never hold an id twice; marking
\* an id that is present changes nothing, marking twice is marking once, and
\* the sets loaded from a file hold each id of its arrays exactly once.
C17_SetSemantics ==
  /\ NoDup(state.processedCommits) /\ NoDup(state.exportedBranches)
  /\ \A c \in Commits :
       LET once == IM_markCommitProcessed(state, c) IN
       /\ IM_markCommitProcessed(once, c) = once
       /\ c \in Range(state.processedCommits) => once = state
       /\ state.loaded => c \in Range(once.processedCommits)
  /\ \A b \in BranchNames :
       LET once == IM_markBranchExported(state, b) IN
       /\ IM_markBranchExported(once, b) = once
       /\ b \in Range(state.exportedBranches) => once = state
       /\ state.loaded => b \in Range(once.exportedBranches)
  /\ (pc = "loaded" /\ IM_loadState(persisted).loaded) =>
       /\ Range(state.processedCommits) = Range(persisted.processedCommits.items)
       /\ Len(state.processedCommits) = Cardinality(Range(persisted.processedCommits.items))
       /\ Range(state.exportedBranches) = Range(persisted.exportedBranches.items)
       /\ Len(state.exportedBranches) = Cardinality(Range(persisted.exportedBranches.items))

\* the file lists c1 twice and no branch: after loading, c1 was marked again
C17_Witness ==
  /\ pc = "marked"
  /\ persisted.kind = "json"
  /\ persisted.processedCommits = [t |-> "array", items |-> <<"c1", "c1">>]
  /\ persisted.exportedBranches = [t |-> "array", items |-> <<>>]
  /\ state.loaded
  /\ state.processedCommits = <<"c1">>
  /\ state.exportedBranches = <<>>

\* branch task i has returned { success: false }
BranchFailed(i) == br[i].st = "done" /\ ~br[i].success

\* a commit task of branch task i marks its commit in this step
MarksNow(i, c) ==
  /\ ct[i][c] # "ok" /\ ct'[i][c] = "ok"
  /\ c \notin state.processedCommits /\ c \in state'.processedCommits

\* C18: once a branch task has returned a failure, processedCommits gains no
\* commit id from the commit tasks of that branch.
C18_NoMarkAfterFailure ==
  [][\A i \in Idx, c \in Commits : BranchFailed(i) => ~MarksNow(i, c)]_vars

\* the commit and file tasks of branch task i that are awaiting a Writer call
\* or the settling of their file tasks
PendingOf(i) ==
  {<<c, "-">> : c \in {d \in Commits : ct[i][d] \in {"files", "writing"}}}
  \cup {<<c, f>> \in Commits \X Files : ft[i][c][f] \in {"wfile", "walert"}}

\* C19: when the outcome of a branch has been produced, no commit task and no
\* file task of that branch is in flight, so that the tasks of a batch do not
\* overlap with the branches of a later batch.
C19_NoTaskAfterOutcome ==
  /\ \A i \in Idx : br[i].st = "done" => PendingOf(i) = {}
  /\ \A i, k \in Idx :
       (BatchNo(i) < BatchNo(k) /\ br[k].st # "idle") => PendingOf(i) = {}

\* C20: the record on disk after a successful save is the in-memory state of
\* the run, at the save and ever after: nothing is marked once saveState was
\* called.
C20_PersistedIsFinalState ==
  (pc = "done" /\ SaveOk) => persisted = saveState(state)

\* the commit tasks of branch task i that were started and have not settled
CommitsInFlight(i) == {c \in Commits : ct[i][c] \in {"files", "writing"}}

\* the commits for which branch task i has started a commit task
CommitsIssued(i) == {c \in Commits : ct[i][c] # "none"}

\* the size of a commit sub-batch
SubBatchSize == Min(10, opts.concurrency)

\* number of the sub-batch that holds position k of an unprocessed list
SubBatchNo(k) == (k - 1) \div SubBatchSize

BranchesStarted == {i \in Idx : br[i].st # "idle"}

\* C22: the batches are the consecutive slices of the branch list of size
\* concurrency (the last may be smaller), taken in order, and they run one
\* after the other: no branch of a later batch is started before every branch
\* of the batches before it has produced its outcome, and the outcomes of the
\* earlier batches have been collected when a batch starts.
C22_BatchesSequential ==
  /\ \A i, k \in Requested :
       (BatchNo(i) < BatchNo(k) /\ br[k].st # "idle") => br[i].st = "done"
  /\ \E m \in 0..Len(opts.branches) : BranchesStarted = 1..m
  /\ pc \in {"starting", "awaiting"} =>
       /\ (batch - 1) % opts.concurrency = 0
       /\ Len(results) = batch - 1
       /\ \A i \in BranchesStarted : BatchNo(i) <= BatchNo(batch)
       /\ \A i \in Requested : BatchNo(i) < BatchNo(batch) => br[i].st = "done"
       /\ pc = "awaiting" =>
            BranchesStarted = {i \in Requested : BatchNo(i) <= BatchNo(batch)}

\* concurrency 1 and two branches: the first has failed, the second is in flight
C22_Witness ==
  /\ opts.concurrency = 1
  /\ Len(opts.branches) = 2
  /\ pc = "awaiting"
  /\ br[1].st = "done" /\ ~br[1].success
  /\ br[2].st \in {"summary", "commits"}

\* the commits exported by branch task i: document written, commit marked
ExportedBy(i) == {c \in Commits : ct[i][c] = "ok"}

RECURSIVE TotalCommits(_)
\* reportResults: results.reduce((sum, r) => sum + r.commits.length, 0)
TotalCommits(rs) ==
  IF rs = <<>> THEN 0 ELSE Len(Head(rs).commits) + TotalCommits(Tail(rs))

RECURSIVE ExportedUpTo(_)
\* the number of commits exported by the branch tasks 1..n
ExportedUpTo(n) ==
  IF n = 0 THEN 0 ELSE Cardinality(ExportedBy(n)) + ExportedUpTo(n - 1)

\* C23: the commit list of every outcome, successful or failed, is the set of
\* commits exported by that branch in this run, and the total of the summary
\* is the number of commits exported in the run.
C23_OutcomeListsExported ==
  /\ \A i \in Idx :
       (br[i].st = "done" /\ PendingOf(i) = {}) => Range(br[i].commits) = ExportedBy(i)
  /\ (pc = "done" /\ Exited) =>
       TotalCommits(results) = ExportedUpTo(Len(opts.branches))

\* s lists exactly the elements of `from` that are not in drop, once each and
\* in the order they have in `from`
IsUnprocessedOf(s, from, drop) ==
  /\ Range(s) = Range(from) \ drop
  /\ Len(s) = Cardinality(Range(s))
  /\ \A c, d \in Range(s) : Pos(s, c) < Pos(s, d) <=> Pos(from, c) < Pos(from, d)

\* every commit task of the unprocessed commits of branch task i has completed
\* and processBranch has run on from there
AllSubBatchesDone(i) ==
  /\ br[i].unp # <<>>
  /\ \A c \in Range(br[i].unp) : ct[i][c] = "ok"
  /\ ~BranchContReady(i)

\* C24: when every commit sub-batch of a branch that is not skipped has
\* completed without error, the branch is marked exported and its outcome is a
\* success whose commit list is the unprocessed subset of the candidates in the
\* candidates' order (newest first), each commit of it being in
\* processedCommits; a successful outcome with commits comes about in no other
\* way.
C24_SuccessListsUnprocessed ==
  \A i \in Requested :
    /\ AllSubBatchesDone(i) =>
         /\ br[i].st = "done" /\ br[i].success /\ br[i].error = None
         /\ opts.branches[i] \in state.exportedBranches
         /\ br[i].all = Slice(History(opts.branches[i]), 1, opts.commitsPerBranch)
         /\ IsUnprocessedOf(br[i].commits, br[i].all, br[i].seen.processedCommits)
         /\ Range(br[i].commits) \subseteq state.processedCommits
         /\ \A c \in Range(br[i].commits) : writes[CommitDoc(c)] >= 1
    /\ (br[i].st = "done" /\ br[i].success /\ br[i].commits # <<>>) =>
         AllSubBatchesDone(i)

\* b1 has exported its two newest commits; b2, whose newest candidate b1 had
\* exported, has exported the other one only
C24_Witness ==
  /\ Len(opts.branches) = 2
  /\ AllSubBatchesDone(1) /\ Len(br[1].commits) = 2
  /\ AllSubBatchesDone(2) /\ Len(br[2].all) = 2 /\ Len(br[2].commits) = 1
  /\ br[2].commits[1] = br[2].all[2]

\* fetching the metadata of a candidate or writing the summary failed in
\* branch task i
SummaryFailed(i) ==
  \E x \in FailuresOf(i) : x[2] \in {"info", "wbranch"}

\* C25: a branch task with an unprocessed candidate writes the branch summary
\* before it starts a commit task, and the summary lists every candidate, the
\* processed ones included, in their order; when fetching the metadata of a
\* candidate or writing the summary fails, the task returns a failure and it
\* starts no commit task and no file task, so that it exports and marks no
\* commit.
C25_SummaryFirst ==
  \A i \in Requested :
    /\ (\E c \in Commits : ct[i][c] # "none") =>
         /\ br[i].unp # <<>>
         /\ br[i].summary.written
         /\ br[i].summary.lines = Slice(History(opts.branches[i]), 1, opts.commitsPerBranch)
         /\ writes[<<"branch", opts.branches[i], "-">>] >= 1
    /\ (br[i].st \in {"commits", "done"} /\ br[i].unp # <<>> /\ ~SummaryFailed(i)) =>
         br[i].summary.written
    /\ br[i].st = "summary" =>
         /\ br[i].unp # <<>> /\ ~br[i].summary.written
         /\ \A c \in Commits : ct[i][c] = "none"
    /\ SummaryFailed(i) =>
         /\ br[i].st = "done" /\ ~br[i].success /\ br[i].commits = <<>>
         /\ ~br[i].summary.written
         /\ \A c \in Commits : ct[i][c] = "none"
         /\ \A c \in Commits, f \in Files : ft[i][c][f] = "none"
         /\ opts.branches[i] \in state.exportedBranches =>
              \/ opts.branches[i] \in log.loaded.exportedBranches
              \/ \E k \in Requested \ {i} : opts.branches[k] = opts.branches[i]

\* the summary of one branch has failed; another branch, one of whose two
\* candidates was processed already, has written its summary with both and
\* started the commit task of the other
C25_Witness ==
  \E i, k \in Requested :
    /\ SummaryFailed(i)
    /\ br[k].summary.written
    /\ Len(br[k].summary.lines) = 2 /\ Len(br[k].unp) = 1
    /\ \E c \in Commits : ct[k][c] # "none"

\* branch task i was not skipped, has fetched its candidates and found every
\* one of them in processedCommits
NothingUnprocessed(i) ==
  /\ br[i].st # "idle"
  /\ ~Skipped(i)
  /\ <<i, "list", "-">> \notin log.failures
  /\ Range(br[i].all) \subseteq br[i].seen.processedCommits

\* C26: a branch that is not skipped and has no unprocessed candidate is
\* marked exported at once (in the step that fetched the candidates) and its
\* outcome is a success with an empty commit list; the task writes no branch
\* summary, makes no Writer call, and starts no commit task and no file task.
C26_NothingToDo ==
  \A i \in Requested :
    NothingUnprocessed(i) =>
      /\ br[i].st = "done" /\ br[i].success
      /\ br[i].commits = <<>> /\ br[i].error = None
      /\ br[i].all = Slice(History(opts.branches[i]), 1, opts.commitsPerBranch)
      /\ br[i].unp = <<>>
      /\ opts.branches[i] \in state.exportedBranches
      /\ ~br[i].summary.written
      /\ i \notin log.wr
      /\ FailuresOf(i) = {}
      /\ \A c \in Commits : ct[i][c] = "none"
      /\ \A c \in Commits, f \in Files : ft[i][c][f] = "none"
      /\ (\A k \in Requested : NothingUnprocessed(k) \/ Skipped(k)) =>
           \A a \in Artifacts : a[1] \in {"branch", "commit", "file", "note", "alert"} => writes[a] = 0

\* the record on disk holds the two candidates of the branch but not the
\* branch: the task has marked the branch and returned, nothing was written
C26_Witness ==
  \E i \in Requested :
    /\ NothingUnprocessed(i)
    /\ Len(br[i].all) = 2
    /\ opts.branches[i] \notin br[i].seen.exportedBranches
    /\ opts.branches[i] \in state.exportedBranches
    /\ Range(br[i].all) \subseteq log.loaded.processedCommits
    /\ writes[<<"branch", opts.branches[i], "-">>] = 0
    /\ pc = "done" /\ SaveOk /\ opts.branches[i] \in persisted.exportedBranches

\* the branches added to exportedBranches in this run
NewlyExported == state.exportedBranches \ log.loaded.exportedBranches

\* the candidates of branch b in this run
CandidatesOf(b) == Range(Slice(History(b), 1, opts.commitsPerBranch))

\* C27: at every state, each branch added to exportedBranches in the current
\* run is one of the requested branches, a task of it has succeeded, and all
\* of its candidates are in processedCommits; the same holds for the record
\* once it was saved.
C27_ExportedImpliesProcessed ==
  /\ \A b \in NewlyExported :
       /\ CandidatesOf(b) \subseteq state.processedCommits
       /\ \E i \in Requested :
            opts.branches[i] = b /\ br[i].st = "done" /\ br[i].success
  /\ (pc = "done" /\ SaveOk) =>
       \A b \in persisted.exportedBranches \ log.before.exportedBranches :
         CandidatesOf(b) \subseteq persisted.processedCommits

\* a branch was added in this run; one of its candidates was loaded from the
\* record, the other was exported in this run
C27_Witness ==
  \E b \in NewlyExported :
    /\ CandidatesOf(b) \cap log.loaded.processedCommits # {}
    /\ CandidatesOf(b) \ log.loaded.processedCommits # {}
    /\ \E k \in Requested : BranchFailed(k)

\* the next run, unforced, would skip branch b
SkippedNext(b) == shouldSkipBranch(loadState(persisted, run + 1), b, FALSE)

\* the branch of task i is listed once in the branch list
ListedOnce(i) == \A k \in Requested : opts.branches[k] = opts.branches[i] => k = i

\* C28 as stated: after any run, forced or not, a branch whose outcome is a
\* failure is not in the persisted exportedBranches, so that the next unforced
\* run does not skip it (stated here for a branch that is listed once).
C28_FailedNotPersisted ==
  pc = "done" =>
    \A i \in Requested :
      (~results[i].success /\ ListedOnce(i)) =>
        /\ opts.branches[i] \notin persisted.exportedBranches
        /\ ~SkippedNext(opts.branches[i])

\* C28 (amended): a run does not add a branch to exportedBranches through a
\* task whose outcome is a failure: after the run such a branch is in the
\* persisted exportedBranches only if the record the run started from held it
\* (the run was forced, then) or another entry of the branch list with the same
\* name succeeded.  After an unforced run that lists the branch once, it is not
\* in the persisted exportedBranches and the next unforced run does not skip it.
C28_FailedNotAdded ==
  pc = "done" =>
    \A i \in Requested :
      ~results[i].success =>
        /\ opts.branches[i] \in persisted.exportedBranches =>
             \/ opts.branches[i] \in log.before.exportedBranches /\ opts.forceUpdate
             \/ \E k \in Requested \ {i} :
                  opts.branches[k] = opts.branches[i] /\ results[k].success
        /\ (~opts.forceUpdate /\ ListedOnce(i)) =>
             /\ opts.branches[i] \notin persisted.exportedBranches
             /\ ~SkippedNext(opts.branches[i])

\* an unforced run of two branches: one failed after it had exported a commit,
\* which is persisted, and is not persisted as exported; the other one is
C28_Witness ==
  /\ pc = "done" /\ SaveOk /\ ~opts.forceUpdate
  /\ \E i, k \in Requested :
       /\ ~results[i].success /\ ListedOnce(i)
       /\ ExportedBy(i) \cap persisted.processedCommits # {}
       /\ ~SkippedNext(opts.branches[i])
       /\ results[k].success /\ SkippedNext(opts.branches[k])

\* processBranches has been called in this run
Orchestrating == pc \in {"starting", "awaiting", "save", "done"}

\* C29: a progress event follows every batch (after the initial event, whose
\* count is 0); the count of an event is the number of outcomes collected when
\* it is emitted, failed branches included: it grows by the size of the batch,
\* never decreases, never exceeds the number of branches, and is that number
\* in the last event.
C29_ProgressAccounting ==
  Orchestrating =>
    /\ Len(progress) >= 1
    /\ progress[1] = 0
    /\ \A k \in 1..Len(progress) :
         /\ progress[k] = Min((k - 1) * opts.concurrency, Len(opts.branches))
         /\ progress[k] <= Len(opts.branches)
         /\ k > 1 => progress[k] > progress[k - 1]
    /\ progress[Len(progress)] = Len(results)
    /\ pc \in {"starting", "awaiting"} =>
         Len(progress) = BatchNo(batch) + 1
    /\ pc \in {"save", "done"} =>
         progress[Len(progress)] = Len(opts.branches)

\* two batches of one branch, the first of which failed: the events count 0, 1, 2
C29_Witness ==
  /\ pc = "done"
  /\ progress = <<0, 1, 2>>
  /\ ~results[1].success /\ results[2].success

\* C30: for every branch list and every concurrency value that reaches
\* processBranches from the command line, 0 included, processBranches
\* eventually returns, with one outcome per branch.
C30_ProcessBranchesReturns ==
  <>(pc = "returned" /\ Len(results) = Len(opts.branches))

\* export has not called saveState yet
BeforeSave ==
  pc \in {"readme", "tags", "index", "starting", "awaiting", "save", "fatal"}

\* C31: markCommitProcessed and markBranchExported change the in-memory state
\* only: at every point of a run before the save the record on disk is the
\* one found at the start of the run, whatever was marked; a process that ends
\* before the save leaves that record, and the run that follows loads it.
C31_MarksInMemoryOnly ==
  /\ [](BeforeSave => (saves = 0 /\ persisted = log.before))
  /\ [][(BeforeSave /\ pc' = "idle") => persisted' = log.before]_vars
  /\ [][(pc = "idle" /\ pc' # "idle") =>
          (state' = loadState(persisted, run') /\ log'.before = persisted
           /\ persisted' = persisted)]_vars
  /\ [][\A c \in Commits, b \in BranchNames :
          (BeforeSave /\ (c \in state'.processedCommits \ state.processedCommits
                          \/ b \in state'.exportedBranches \ state.exportedBranches)) =>
            persisted' = persisted]_vars

\* a run that found a record has marked a further commit and a further
\* branch, and has not saved: the record on disk holds neither
C31_Witness ==
  /\ BeforeSave
  /\ log.before.exists /\ log.before.processedCommits # {}
  /\ persisted = log.before
  /\ state.processedCommits \ persisted.processedCommits # {}
  /\ state.exportedBranches \ persisted.exportedBranches # {}

\* the snapshot links of the document of commit c: one per retained file
\* (processCommit pushes `files/<file>@<sha>.md` for every filtered file)
SnapshotLinks(c) == {<<c, f>> : f \in Retained(c)}

\* a document was written at the snapshot link of f at c
LinkTargetWritten(c, f) == writes[<<"file", c, f>>] + writes[<<"note", c, f>>] >= 1

\* C32: in a run with file export disabled every retained file of every
\* processed commit still gets a snapshot artifact (a placeholder), so that
\* every snapshot link of a commit document points to an artifact that was
\* written.
C32_PlaceholderWhenDisabled ==
  ~opts.includeFiles =>
    \A i \in Idx, c \in Commits :
      ct[i][c] = "ok" => \A l \in SnapshotLinks(c) : LinkTargetWritten(l[1], l[2])

\* the blob of f at c is larger than maxFileSize or cannot be read
SkippedBlob(c, f) == f \in Retained(c) /\ BlobKind(c, f) \in {"large", "unreadable"}

\* a call of commit task c of branch task i failed
CallFailedIn(i, c) ==
  \E x \in FailuresOf(i) : x[3] = c /\ x[2] \in {"commit", "wfile", "walert", "wcommit"}

\* C33: with file export enabled, a file whose blob exceeds maxFileSize or
\* cannot be read gets the note of a skipped snapshot at its link and nothing
\* else: its content is not fetched, it is not scanned, no snapshot and no
\* alert is written for it, and its commit fails only when a call fails.
C33_SkippedBlobGetsNote ==
  \A c \in Commits, f \in Files :
    SkippedBlob(c, f) =>
      /\ getBlobContent(c, f, MaxFileSize) = <<>>
      /\ writes[<<"file", c, f>>] = 0
      /\ writes[<<"alert", c, f>>] = 0
      /\ \A i \in Idx :
           /\ <<i, c, f>> \notin log.scans
           /\ ft[i][c][f] # "walert"
           /\ (ft[i][c][f] = "ok" /\ opts.includeFiles) => writes[<<"note", c, f>>] >= 1
           /\ ft[i][c][f] = "err" => <<i, "wfile", c>> \in log.failures
           /\ ct[i][c] = "failed" => CallFailedIn(i, c)
           /\ (ct[i][c] = "ok" /\ opts.includeFiles) => LinkTargetWritten(c, f)

\* a run with file export and scanning has processed c3, which has a blob that
\* is too large, and c1, which has one that cannot be read: both notes were
\* written, both commits were marked
C33_Witness ==
  /\ opts.includeFiles /\ opts.secretScan
  /\ writes[<<"note", "c3", "f2">>] >= 1
  /\ writes[<<"note", "c1", "f2">>] >= 1
  /\ writes[<<"alert", "c3", "f1">>] >= 1
  /\ {"c3", "c1"} \subseteq state.processedCommits \ log.loaded.processedCommits

\* no other branch task has a commit task for c
OnlyTaskFor(i, c) == \A k \in Idx \ {i} : ct[k][c] = "none"

\* C34: a commit task marks its commit only when every file task of the
\* retained files has completed without error: after a failed write of a
\* snapshot or of an alert the commit task does not write the commit document
\* and does not mark the commit, and its branch fails.
C34_FileFailureFailsCommit ==
  \A i \in Idx, c \in Commits :
    /\ ct[i][c] \in {"writing", "ok"} =>
         \A f \in Retained(c) : ft[i][c][f] = "ok"
    /\ (\E f \in Files : ft[i][c][f] = "err") =>
         /\ ct[i][c] \in {"files", "failed"}
         /\ \E x \in FailuresOf(i) : x[3] = c /\ x[2] \in {"wfile", "walert"}
         /\ br[i].st = "done" => ~br[i].success
         /\ ~MicroReady => (ct[i][c] = "failed" /\ BranchFailed(i) /\ br[i].commits = <<>>)
         /\ (OnlyTaskFor(i, c) /\ c \notin log.loaded.processedCommits) =>
              /\ writes[CommitDoc(c)] = 0
              /\ c \notin state.processedCommits
              /\ pc = "done" => c \notin persisted.processedCommits

\* the snapshot of f1 at c3 was written, its alert could not be: the run has
\* ended with c3 unmarked and its branch failed
C34_Witness ==
  \E i \in Requested :
    /\ pc = "done" /\ SaveOk
    /\ <<i, "walert", "c3">> \in log.failures
    /\ writes[<<"file", "c3", "f1">>] >= 1
    /\ ft[i]["c3"]["f1"] = "err" /\ ft[i]["c3"]["f2"] = "ok"
    /\ "c3" \notin persisted.processedCommits
    /\ BranchFailed(i)

\* ---- C35
\* the alert conditions of a file at a commit, stated on the repository and
\* the options: scanning and file export enabled, the blob readable and within
\* the size limit, and at least one pattern matching its text
AlertDue(c, f) ==
  /\ opts.secretScan
  /\ opts.includeFiles
  /\ BlobKind(c, f) \notin {"large", "unreadable"}
  /\ Hits(BuiltinPatterns, BlobText(BlobKind(c, f))) # <<>>

\* C35: an alert artifact exists for a file at a commit only if secret
\* scanning and file export are enabled, the blob content was fetched (its
\* snapshot is written) and the scan matched at least one category; and every
\* file task that completed under these conditions has written the alert.  A
\* clean file, a skipped file and a run without scanning have no alert.
C35_AlertIffHits ==
  \A c \in Commits : \A f \in Files :
    /\ writes[<<"alert", c, f>>] >= 1 =>
         AlertDue(c, f) /\ writes[<<"file", c, f>>] >= 1
    /\ \A i \in Idx :
         (ft[i][c][f] = "ok" /\ AlertDue(c, f)) => writes[<<"alert", c, f>>] >= 1

\* an alert for the secret blob of f1 at c3 next to the completed files of c1:
\* the clean f1 has its snapshot and no alert, the unreadable f2 its note and
\* no alert
C35_Witness ==
  /\ writes[<<"alert", "c3", "f1">>] = 1
  /\ \E i \in Idx : ft[i]["c3"]["f1"] = "ok"
  /\ \E i \in Idx : ft[i]["c1"]["f1"] = "ok" /\ ft[i]["c1"]["f2"] = "ok"
  /\ writes[<<"file", "c1", "f1">>] >= 1
  /\ writes[<<"note", "c1", "f2">>] >= 1
  /\ writes[<<"alert", "c1", "f1">>] = 0
  /\ writes[<<"alert", "c1", "f2">>] = 0

\* ---- C36
Readme == <<"readme", "-", "-">>
Tags == <<"tags", "-", "-">>
Index == <<"index", "-", "-">>

\* processBranch has been called, or something of a branch has been read or
\* written, in this invocation
BranchWorkBegun ==
  \/ \E i \in Idx : br[i].st # "idle"
  \/ log.prov # {}
  \/ log.wr # {}
  \/ results # <<>>
  \/ \E a \in Artifacts \ {Readme, Tags, Index} : writes[a] >= 1

\* C36: in one invocation the readme, the tag list and the index are each
\* written at most once, in this order, and all three have been written (once)
\* when processBranches is entered, hence before any branch is read and before
\* any branch, commit, file, note or alert artifact is written, and still so
\* when export saves and returns.
C36_PreambleOnceBeforeBranches ==
  /\ \A a \in {Readme, Tags, Index} : writes[a] <= 1
  /\ writes[Tags] = 1 => writes[Readme] = 1
  /\ writes[Index] = 1 => writes[Tags] = 1
  /\ (BranchWorkBegun \/ pc \in {"starting", "awaiting", "save", "done"}) =>
       \A a \in {Readme, Tags, Index} : writes[a] = 1

\* a finished invocation that exported a branch with its commits and files
C36_Witness ==
  /\ pc = "done"
  /\ writes[Readme] = 1 /\ writes[Tags] = 1 /\ writes[Index] = 1
  /\ \E b \in BranchNames : writes[<<"branch", b, "-">>] >= 1
  /\ \E c \in Commits : writes[<<"commit", c, "-">>] >= 1
  /\ \E c \in Commits, f \in Files : writes[<<"file", c, f>>] >= 1
  /\ log.prov # {}

\* ---- C37
RECURSIVE Compiled(_)
\* the custom entries that compile, in the order of the configuration
Compiled(custom) ==
  IF custom = <<>> THEN <<>>
  ELSE (IF NewRegExp(Head(custom).pattern) = <<>> THEN <<>>
        ELSE <<[name |-> Head(custom).name, matches |-> NewRegExp(Head(custom).pattern)[1]]>>)
       \o Compiled(Tail(custom))

\* C37 (as stated): a custom pattern that does not compile never ends the
\* run; the export is reached with the built-in patterns and the custom
\* patterns that compile, and an alert lists what these patterns match.
C37_BadPatternNonFatal ==
  /\ pc # "fatal"
  /\ pc = "export" => scanned.patterns = BuiltinPatterns \o Compiled(scanned.custom)
  /\ scanned.alerts[1] # None =>
       scanned.alerts[1][3] = Hits(BuiltinPatterns \o Compiled(scanned.custom), scanned.blobs[1])

\* what the program does instead: the run is fatal exactly when some custom
\* pattern does not compile, and it reaches the export only with a list in
\* which every pattern compiles, all of them applied after the built-in ones
C37_BadPatternIsFatal ==
  /\ pc = "fatal" <=> (pc # "idle" /\ \E k \in 1..Len(scanned.custom) :
                                        scanned.custom[k].name = "Broken")
  /\ pc = "export" =>
       /\ \A k \in 1..Len(scanned.custom) : scanned.custom[k].name # "Broken"
       /\ Len(scanned.patterns) = Len(BuiltinPatterns) + Len(scanned.custom)
  /\ pc = "fatal" => scanned.alerts[1] = None

====
